---- MODULE Spec2Model ----
(***************************************************************************)
(* Model of the BPF packet inspector trace_tcp_rcv of cmu-snap/unfair.     *)
(*                                                                         *)
(* Two variants of the program are in the repository:                      *)
(*   variant 1: src/runtime/unfair_runtime.c                               *)
(*   variant 2: src/unfair/runtime/unfair_runtime.c                        *)
(* Both are compiled for the byte order of the host, so a build is a pair  *)
(* (variant, littleEndian).  Every execution context (CPU) that hits the   *)
(* probe runs trace_tcp_rcv on its own stack; the only object they share   *)
(* is the perf output `pkts`.                                              *)
(*                                                                         *)
(* Variant 2 declares the size members of struct pkt_t as total_bytes,     *)
(* ihl_bytes, thl_bytes and payload_bytes while its statements assign      *)
(* total_B, ihl_B, thl_B and payload_B; variant 1 calls them total_b,      *)
(* ihl_b, thl_b and payload_b.  The model takes these to be the same four  *)
(* members and names them as the statements of variant 2 do.  The member   *)
(* before time_us is `padding` in variant 2 and `iv` in variant 1.         *)
(*                                                                         *)
(* A u64 (time_us, the timestamp) is an integer of the model; the          *)
(* timestamps drawn stay below 2^31.                                       *)
(*                                                                         *)
(* An sk_buff is modelled by the members the program reads: the two wire   *)
(* bytes of skb->protocol, the byte buffer skb->head, the two header       *)
(* offsets and the raw timestamp.  Offsets into buffers are 0-based, as in *)
(* C.                                                                      *)
(***************************************************************************)
EXTENDS Integers, Sequences, FiniteSets, Bags

VARIABLES
    variant,        \* which of the two source files was built (1 or 2)
    littleEndian,   \* __BYTE_ORDER == __LITTLE_ENDIAN in this build
    inputs,         \* the <<skb, sk>> pairs the capture point may pass in
    budget,         \* invocations the capture point may still start
    pc,             \* pc[c]: position of CPU c inside trace_tcp_rcv
    skb,            \* skb[c]: the frame argument of the invocation on CPU c
    sk,             \* sk[c]: the socket argument of the invocation on CPU c
    pkt,            \* pkt[s]: the struct pkt_t stored in stack slot s
    pkts,           \* the perf output: every record submitted, in order
    log             \* finished invocations: their arguments and records

vars == <<variant, littleEndian, inputs, budget, pc, skb, sk, pkt, pkts, log>>

----------------------------------------------------------------------------
(* Bounds of the model.                                                    *)

NumCpus == 2

MaxInvocations == 2

CPUs == 1..NumCpus

----------------------------------------------------------------------------
(* Machine arithmetic.                                                     *)

\* A u32 is kept as its two 16-bit halves <<high, low>>: the values of the
\* program do not fit the integers of the model checker.
U32Of(n) == <<(n \div 65536) % 65536, n % 65536>>

\* Subtraction of u32 values, modulo 2^32.
Sub32(a, b) ==
    LET lo == a[2] - b[2]
        hi == a[1] - b[1] - (IF lo < 0 THEN 1 ELSE 0)
    IN  <<hi % 65536, lo % 65536>>

RECURSIVE BitAnd(_, _)
\* The C operator & on unsigned values.
BitAnd(a, b) ==
    IF a = 0 \/ b = 0 THEN 0
    ELSE (a % 2) * (b % 2) + 2 * BitAnd(a \div 2, b \div 2)

RECURSIVE Pow2(_)
Pow2(n) == IF n = 0 THEN 1 ELSE 2 * Pow2(n - 1)

\* The C operator >> on unsigned values.
Shr(a, n) == a \div Pow2(n)

\* The C operator >> on a u32, for a shift of less than 16.
Shr32(a, n) ==
    <<Shr(a[1], n), Shr(a[2], n) + (a[1] % Pow2(n)) * Pow2(16 - n)>>

\* One byte of a buffer at a 0-based offset.
ByteAt(buf, off) == buf[off + 1]

\* A 16-bit load of the host from two bytes in memory order.
Load16(b0, b1) ==
    IF littleEndian THEN b0 + 256 * b1 ELSE 256 * b0 + b1

\* A 32-bit load of the host from four bytes in memory order.
Load32(b0, b1, b2, b3) ==
    IF littleEndian
    THEN <<b2 + 256 * b3, b0 + 256 * b1>>
    ELSE <<256 * b0 + b1, 256 * b2 + b3>>

Load16At(buf, off) == Load16(ByteAt(buf, off), ByteAt(buf, off + 1))

Load32At(buf, off) ==
    Load32(ByteAt(buf, off), ByteAt(buf, off + 1),
           ByteAt(buf, off + 2), ByteAt(buf, off + 3))

\* ntohs(): a byte swap on a little-endian host, the identity otherwise.
ntohs(x) ==
    IF littleEndian THEN (x % 256) * 256 + (x \div 256) ELSE x

\* htons() is the same permutation.
htons(x) == ntohs(x)

----------------------------------------------------------------------------
(* Kernel types as the program sees them.                                  *)

\* Byte offsets of the members of struct iphdr that the program names.
iphdr == [tos |-> 1, tot_len |-> 2, protocol |-> 9, saddr |-> 12, daddr |-> 16]

\* Byte offsets of the members of struct tcphdr that the program names.
tcphdr == [source |-> 0, dest |-> 2, seq |-> 4, ack_seq |-> 8]

\* sizeof(__be32): the scale of pointer arithmetic on &tcp->ack_seq.
SizeofBe32 == 4

ETH_P_IP == 2048

IPPROTO_TCP == 6

AF_INET == 2

\* The null frame reference.
NULL == [null |-> TRUE]

\* skb_to_iphdr(): offset of the IPv4 header in skb->head.
skb_to_iphdr(s) == s.network_header

\* skb_to_tcphdr(): offset of the TCP header in skb->head.
skb_to_tcphdr(s) == s.transport_header

----------------------------------------------------------------------------
(* trace_tcp_rcv, statement by statement.                                  *)

\* Rejected without the check of ip->protocol.
RejectedNoTcpCheck(s, k) ==
    \/ variant = 1 /\ k.skc_family # AF_INET
    \/ s = NULL
    \/ Load16(s.protocol[1], s.protocol[2]) # htons(ETH_P_IP)

\* The early returns: TRUE when the invocation returns before building a
\* record.  Variant 1 also returns for a socket that is not AF_INET.
Rejected(s, k) ==
    \/ variant = 1 /\ k.skc_family # AF_INET
    \/ s = NULL
    \/ Load16(s.protocol[1], s.protocol[2]) # htons(ETH_P_IP)
    \/ ByteAt(s.head, skb_to_iphdr(s) + iphdr.protocol) # IPPROTO_TCP

\* `struct pkt_t pkt = {}` in variant 2; `struct pkt_t pkt;` in variant 1,
\* whose members then hold whatever the stack held (j).
DeclPkt(j) ==
    LET h == IF variant = 2 THEN 0 ELSE j
        v == <<h, h>>
    IN  [saddr |-> v, daddr |-> v, sport |-> h, dport |-> h,
         seq |-> v, srtt_us |-> v, tsval |-> v, tsecr |-> v, total_B |-> v,
         ihl_B |-> v, thl_B |-> v, payload_B |-> v, padding |-> v,
         time_us |-> h]

\* pkt.saddr = ip->saddr; pkt.daddr = ip->daddr;
IpFields(s, p) ==
    LET ip == skb_to_iphdr(s)
    IN  [p EXCEPT !.saddr = Load32At(s.head, ip + iphdr.saddr),
                  !.daddr = Load32At(s.head, ip + iphdr.daddr)]

\* pkt.dport = ntohs(tcp->dest); pkt.sport = ntohs(tcp->source);
\* pkt.seq = tcp->seq;
TcpFields(s, p) ==
    LET tcp == skb_to_tcphdr(s)
    IN  [p EXCEPT !.dport = ntohs(Load16At(s.head, tcp + tcphdr.dest)),
                  !.sport = ntohs(Load16At(s.head, tcp + tcphdr.source)),
                  !.seq = Load32At(s.head, tcp + tcphdr.seq)]

\* pkt.srtt_us = ts->srtt_us >> 3; and the two timestamp-option values.
SockFields(k, p) ==
    [p EXCEPT !.srtt_us = Shr32(k.srtt_us, 3),
              !.tsval = k.rcv_tsval,
              !.tsecr = k.rcv_tsecr]

\* pkt.total_B = ntohs(ip->tot_len);
TotalBytes(s) == ntohs(Load16At(s.head, skb_to_iphdr(s) + iphdr.tot_len))

\* The byte bpf_probe_read copies from &ip->tos - 1 (u8 pointer arithmetic).
IhlByte(s) == ByteAt(s.head, skb_to_iphdr(s) + iphdr.tos - 1)

\* The nibble the build keeps as the header length.
IhlNibble(f) ==
    IF littleEndian THEN Shr(BitAnd(f, 240), 4) ELSE BitAnd(f, 15)

\* The other nibble, which variant 1 stores in pkt.iv.
IvNibble(f) ==
    IF littleEndian THEN BitAnd(f, 15) ELSE Shr(BitAnd(f, 240), 4)

\* The byte bpf_probe_read copies from &tcp->ack_seq + 4: ack_seq is a
\* __be32, so the pointer moves four elements of four bytes.
ThlByte(s) ==
    ByteAt(s.head, skb_to_tcphdr(s) + tcphdr.ack_seq + 4 * SizeofBe32)

\* The nibble the build keeps as the TCP header length.
ThlNibble(t) ==
    IF littleEndian THEN Shr(BitAnd(t, 15), 4) ELSE Shr(BitAnd(t, 240), 4)

\* The payload without the TCP header subtracted.
PayloadBytesNoThl(total, ihl, thl) == Sub32(total, ihl)

\* pkt.payload_B = pkt.total_B - pkt.ihl_B - pkt.thl_B, in u32.
PayloadBytes(total, ihl, thl) == Sub32(Sub32(total, ihl), thl)

\* Lines 93-126: the four size members (and iv in variant 1).
LenFields(s, p) ==
    LET total == U32Of(TotalBytes(s))
        ihl   == U32Of(IhlNibble(IhlByte(s)) * 4)
        thl   == U32Of(ThlNibble(ThlByte(s)) * 4)
    IN  [p EXCEPT !.total_B = total,
                  !.ihl_B = ihl,
                  !.padding = IF variant = 1
                              THEN U32Of(IvNibble(IhlByte(s))) ELSE @,
                  !.thl_B = thl,
                  !.payload_B = PayloadBytes(total, ihl, thl)]

\* pkt.time_us = (u64)tstamp / 1000000;
TimeUs(tstamp) == tstamp \div 1000000

TimeField(s, p) == [p EXCEPT !.time_us = TimeUs(s.tstamp)]

\* A submission that is repeated.
perf_submit_twice(q, rec) == q \o <<rec, rec>>

\* pkts.perf_submit(ctx, &pkt, sizeof(pkt)): one copy of the record joins
\* the perf output q.
perf_submit(q, rec) == Append(q, rec)

\* `static struct pkt_t pkt`: one object for every execution context.
PktSlotStatic(c) == 1

\* The stack slot that holds `pkt` of the invocation on CPU c: an automatic
\* variable, so one per execution context.
PktSlot(c) == c

\* What each half-word of an uninitialised automatic variable may hold.
Junk == IF variant = 2 THEN {0} ELSE {0, 65535}

----------------------------------------------------------------------------
(* The frames and sockets the capture point passes in.                     *)

Max(a, b) == IF a >= b THEN a ELSE b

\* n bytes of value b.
Fill(n, b) == [i \in 1..n |-> b]

\* A 16-bit value as its two wire (big-endian) bytes.
Wire16(v) == <<v \div 256, v % 256>>

\* An IPv4 header of ihl words on the wire: version 4 in the high nibble
\* of byte 0, the header length in the low nibble, options filled with NOP.
MkIp(ihl, proto, totlen, saddr, daddr) ==
    <<64 + ihl, 0>> \o Wire16(totlen) \o <<0, 0, 0, 0, 64, proto, 0, 0>>
        \o saddr \o daddr \o Fill(4 * ihl - 20, 1)

\* A TCP header of doff words on the wire followed by what the buffer holds
\* after it (options, payload or tail room), all of value fill.
MkTcp(sport, dport, seq, doff, fill) ==
    sport \o dport \o seq \o <<0, 0, 0, 0>> \o <<16 * doff, 16>>
        \o <<255, 255, 0, 0, 0, 0>> \o Fill(Max(4 * doff - 20, 8), fill)

\* An sk_buff: an Ethernet header, then the IPv4 header at network_header,
\* then the TCP header at transport_header.
MkSkb(ethertype, ihl, proto, totlen, saddr, daddr, sport, dport, seq, doff, fill, tstamp) ==
    [protocol         |-> Wire16(ethertype),
     head             |-> Fill(12, 0) \o Wire16(ethertype)
                              \o MkIp(ihl, proto, totlen, saddr, daddr)
                              \o MkTcp(sport, dport, seq, doff, fill),
     network_header   |-> 14,
     transport_header |-> 14 + 4 * ihl,
     tstamp           |-> tstamp]

\* A struct sock / tcp_sock: the members the program reads.
MkSock(family, srtt, tsval, tsecr) ==
    [skc_family |-> family, srtt_us |-> U32Of(srtt),
     rcv_tsval |-> U32Of(tsval), rcv_tsecr |-> U32Of(tsecr)]

Addr1 == <<10, 0, 0, 1>>

Addr2 == <<192, 168, 1, 2>>

\* A pure ACK: 20 + 20 bytes of headers, no payload.
SkbAck == MkSkb(2048, 5, 6, 40, Addr1, Addr2, <<0, 80>>, <<1, 187>>,
                <<0, 0, 0, 1>>, 5, 243, 1000000500)

\* A full segment with the timestamp option: 20 + 32 bytes of headers.
SkbData == MkSkb(2048, 5, 6, 1500, Addr2, Addr1, <<31, 144>>, <<0, 80>>,
                 <<18, 52, 86, 120>>, 8, 0, 1999)

\* A UDP datagram.
SkbUdp == MkSkb(2048, 5, 17, 1500, Addr1, Addr2, <<0, 53>>, <<0, 53>>,
                <<0, 0, 0, 0>>, 5, 0, 1000)

\* A frame whose declared protocol is IPv6.
SkbV6 == MkSkb(34525, 5, 6, 40, Addr1, Addr2, <<0, 80>>, <<1, 187>>,
               <<0, 0, 0, 1>>, 5, 0, 1000)

SockInet == MkSock(AF_INET, 803, 7, 3)

\* A socket of family AF_INET6.
SockInet6 == MkSock(10, 1600, 9, 5)

\* The calls of the concurrent specification.
SomeInputs ==
    {<<NULL, SockInet>>, <<SkbV6, SockInet6>>, <<SkbUdp, SockInet>>,
     <<SkbAck, SockInet>>, <<SkbData, SockInet>>, <<SkbAck, SockInet6>>}

\* The frames of the single-call specification: every combination of the
\* header fields the program reads.
AllSkbs ==
    {NULL} \cup
    { MkSkb(e, ihl, proto, totlen, Addr1, Addr2, sport, <<1, 187>>, seq, doff, fill, ts) :
        e \in {2048, 34525}, ihl \in {5, 15}, proto \in {6, 17},
        totlen \in {40, 1500}, sport \in {<<0, 80>>, <<31, 144>>},
        seq \in {<<0, 0, 0, 1>>, <<18, 52, 86, 120>>}, doff \in {5, 8, 15},
        fill \in {0, 243}, ts \in {999, 1000, 1000000500} }

AllSocks == {SockInet, SockInet6}

----------------------------------------------------------------------------
(* The state machine.                                                      *)

\* A stack slot no invocation is using.
ZeroPkt ==
    [saddr |-> <<0, 0>>, daddr |-> <<0, 0>>, sport |-> 0, dport |-> 0,
     seq |-> <<0, 0>>, srtt_us |-> <<0, 0>>, tsval |-> <<0, 0>>,
     tsecr |-> <<0, 0>>, total_B |-> <<0, 0>>, ihl_B |-> <<0, 0>>,
     thl_B |-> <<0, 0>>, payload_B |-> <<0, 0>>, padding |-> <<0, 0>>,
     time_us |-> 0]

InitCommon ==
    /\ variant \in {1, 2}
    /\ littleEndian \in BOOLEAN
    /\ pc = [c \in CPUs |-> "idle"]
    /\ skb = [c \in CPUs |-> NULL]
    /\ sk = [c \in CPUs |-> SockInet]
    /\ pkt = [c \in CPUs |-> ZeroPkt]
    /\ pkts = <<>>
    /\ log = <<>>

\* Several execution contexts, a few calls.
Init ==
    /\ InitCommon
    /\ inputs = SomeInputs
    /\ budget = MaxInvocations

\* One call on any frame.
InitFn ==
    /\ InitCommon
    /\ \E s \in AllSkbs, k \in AllSocks : inputs = {<<s, k>>}
    /\ budget = 1

\* The probe fires on CPU c with arguments (sk, skb).
Call(c) ==
    /\ pc[c] = "idle"
    /\ budget > 0
    /\ \E in \in inputs :
          /\ skb' = [skb EXCEPT ![c] = in[1]]
          /\ sk' = [sk EXCEPT ![c] = in[2]]
    /\ budget' = budget - 1
    /\ pc' = [pc EXCEPT ![c] = "filter"]
    /\ UNCHANGED <<variant, littleEndian, inputs, pkt, pkts, log>>

\* `return 0`: the invocation ends.  The log keeps its arguments, the
\* records it submitted and the CPUs that were inside the function then.
Return(c, emitted) ==
    /\ pc' = [pc EXCEPT ![c] = "idle"]
    /\ log' = Append(log, [cpu |-> c, skb |-> skb[c], sk |-> sk[c],
                            emitted |-> emitted,
                            busy |-> {d \in CPUs \ {c} : pc[d] # "idle"}])

\* The three early returns.
Filter(c) ==
    /\ pc[c] = "filter"
    /\ IF Rejected(skb[c], sk[c])
       THEN Return(c, <<>>)
       ELSE pc' = [pc EXCEPT ![c] = "ip"] /\ log' = log
    /\ UNCHANGED <<variant, littleEndian, inputs, budget, skb, sk, pkt, pkts>>

\* The declaration of pkt and the two addresses.
ReadIp(c) ==
    /\ pc[c] = "ip"
    /\ \E j \in Junk :
          pkt' = [pkt EXCEPT ![PktSlot(c)] = IpFields(skb[c], DeclPkt(j))]
    /\ pc' = [pc EXCEPT ![c] = "tcp"]
    /\ UNCHANGED <<variant, littleEndian, inputs, budget, skb, sk, pkts, log>>

\* The ports and the sequence number.
ReadTcp(c) ==
    /\ pc[c] = "tcp"
    /\ pkt' = [pkt EXCEPT ![PktSlot(c)] = TcpFields(skb[c], @)]
    /\ pc' = [pc EXCEPT ![c] = "sock"]
    /\ UNCHANGED <<variant, littleEndian, inputs, budget, skb, sk, pkts, log>>

\* The connection state.
ReadSock(c) ==
    /\ pc[c] = "sock"
    /\ pkt' = [pkt EXCEPT ![PktSlot(c)] = SockFields(sk[c], @)]
    /\ pc' = [pc EXCEPT ![c] = "len"]
    /\ UNCHANGED <<variant, littleEndian, inputs, budget, skb, sk, pkts, log>>

\* The sizes.
Lengths(c) ==
    /\ pc[c] = "len"
    /\ pkt' = [pkt EXCEPT ![PktSlot(c)] = LenFields(skb[c], @)]
    /\ pc' = [pc EXCEPT ![c] = "submit"]
    /\ UNCHANGED <<variant, littleEndian, inputs, budget, skb, sk, pkts, log>>

\* The capture time, pkts.perf_submit(ctx, &pkt, sizeof(pkt)) and return 0.
Submit(c) ==
    /\ pc[c] = "submit"
    /\ LET rec == TimeField(skb[c], pkt[PktSlot(c)])
       IN  /\ pkts' = perf_submit(pkts, rec)
           /\ pkt' = [pkt EXCEPT ![PktSlot(c)] = ZeroPkt]
           /\ Return(c, SubSeq(pkts', Len(pkts) + 1, Len(pkts')))
    /\ UNCHANGED <<variant, littleEndian, inputs, budget, skb, sk>>

Next ==
    \E c \in CPUs :
        \/ Call(c)
        \/ Filter(c)
        \/ ReadIp(c)
        \/ ReadTcp(c)
        \/ ReadSock(c)
        \/ Lengths(c)
        \/ Submit(c)

Spec == Init /\ [][Next]_vars

SpecFn == InitFn /\ [][Next]_vars

----------------------------------------------------------------------------
(* What the wire formats of IPv4 and TCP say about a frame, read off the   *)
(* bytes without any of the program's operators.                           *)

IsIPv4(s) == s.protocol = <<8, 0>>

IsTcp(s) == s.head[s.network_header + 10] = 6

\* A frame that passes every stage of its build's filter.
Accepted(e) ==
    /\ e.skb # NULL
    /\ IsIPv4(e.skb)
    /\ IsTcp(e.skb)
    /\ variant = 1 => e.sk.skc_family = 2

\* Header length nibble: low nibble of the first byte of the IPv4 header.
WireIhl(s) == s.head[s.network_header + 1] % 16

\* Data offset nibble: high nibble of byte 12 of the TCP header.
WireDoff(s) == s.head[s.transport_header + 13] \div 16

\* Total length: bytes 2 and 3 of the IPv4 header, big-endian.
WireTotLen(s) ==
    256 * s.head[s.network_header + 3] + s.head[s.network_header + 4]

\* The big-endian value of the two bytes at 0-based offset off.
WireValue16(s, off) == 256 * s.head[off + 1] + s.head[off + 2]

Emitting == {i \in DOMAIN log : log[i].emitted # <<>>}

----------------------------------------------------------------------------
(* C1: an invocation whose frame reference is NULL, or whose frame is not  *)
(* IPv4, or whose IPv4 protocol field is not TCP, submits no record.       *)
C1_NoRecordWhenFiltered ==
    \A i \in DOMAIN log :
        (\/ log[i].skb = NULL
         \/ ~IsIPv4(log[i].skb)
         \/ ~IsTcp(log[i].skb))
        => log[i].emitted = <<>>

\* An IPv4 frame that is not TCP went through the function, after an
\* accepted frame had put a record in the output.
C1_Witness ==
    \E i \in DOMAIN log :
        /\ log[i].skb # NULL
        /\ IsIPv4(log[i].skb)
        /\ ~IsTcp(log[i].skb)
        /\ log[i].emitted = <<>>
        /\ pkts # <<>>

(* C2: every invocation submits at most one record, an accepted frame      *)
(* exactly one, and the output holds as many records as frames were        *)
(* accepted by the invocations that have returned.                         *)
C2_OneRecordPerAcceptedFrame ==
    /\ \A i \in DOMAIN log :
          /\ Len(log[i].emitted) <= 1
          /\ Accepted(log[i]) => Len(log[i].emitted) = 1
    /\ Len(pkts) = Cardinality({i \in DOMAIN log : Accepted(log[i])})

\* An accepted frame and a rejected one have been processed, one after
\* the other on the same CPU.
C2_Witness ==
    /\ Len(log) = 2
    /\ log[1].cpu = log[2].cpu
    /\ Accepted(log[1])
    /\ ~Accepted(log[2])
    /\ Len(pkts) = 1

(* C3: the record's IP header length is 4 times the low nibble of the      *)
(* first byte of the IPv4 header, whatever the byte order of the host.     *)
C3_IhlFromLowNibble ==
    \A i \in Emitting :
        log[i].emitted[1].ihl_B = <<0, 4 * WireIhl(log[i].skb)>>

(* C4: the record's TCP header length is 4 times the high nibble of byte   *)
(* 12 of the TCP header, whatever the byte order of the host.              *)
C4_ThlFromDataOffset ==
    \A i \in Emitting :
        log[i].emitted[1].thl_B = <<0, 4 * WireDoff(log[i].skb)>>

(* C5: in every record whose total length is at least the sum of its two   *)
(* header lengths, payload = total - IP header - TCP header.               *)
C5_PayloadIsDifference ==
    \A n \in DOMAIN pkts :
        LET r == pkts[n]
        IN  (r.total_B[1] = 0 /\ r.total_B[2] >= r.ihl_B[2] + r.thl_B[2])
            => r.payload_B = <<0, r.total_B[2] - r.ihl_B[2] - r.thl_B[2]>>

\* A record with both header lengths non-zero and a payload.
C5_Witness ==
    \E n \in DOMAIN pkts :
        /\ pkts[n].ihl_B[2] > 0
        /\ pkts[n].thl_B[2] > 0
        /\ pkts[n].total_B[2] > pkts[n].ihl_B[2] + pkts[n].thl_B[2]
        /\ pkts[n].payload_B[1] = 0
        /\ pkts[n].payload_B[2] > 0

\* Frames whose total length is less than their two header lengths.
Underlength ==
    {i \in DOMAIN log :
        /\ Accepted(log[i])
        /\ WireTotLen(log[i].skb)
               < 4 * WireIhl(log[i].skb) + 4 * WireDoff(log[i].skb)}

(* C6: a frame whose total length is less than its two header lengths      *)
(* yields a record with payload 0, or no record, the same of the two for   *)
(* all such frames; so its payload length is never a wrapped difference.   *)
C6_NoPayloadWrap ==
    \/ \A i \in Underlength : log[i].emitted = <<>>
    \/ \A i \in Underlength :
           /\ log[i].emitted # <<>>
           /\ log[i].emitted[1].payload_B = <<0, 0>>

(* C7: in every record both header lengths are multiples of 4 in          *)
(* [20, 60]; a frame whose header length decodes outside is rejected.      *)
C7_HeaderLengthsInRange ==
    \A n \in DOMAIN pkts :
        /\ pkts[n].ihl_B \in {<<0, 4 * w>> : w \in 5..15}
        /\ pkts[n].thl_B \in {<<0, 4 * w>> : w \in 5..15}

(* C8: the record's capture time is the frame's timestamp in nanoseconds   *)
(* divided by 1000, truncated.                                             *)
C8_TimeInMicroseconds ==
    \A i \in Emitting :
        log[i].emitted[1].time_us = log[i].skb.tstamp \div 1000

(* C9: the record's ports and sequence number are the numeric values of    *)
(* the big-endian fields of the TCP header.                                *)
C9_HostOrderFields ==
    \A i \in Emitting :
        LET s == log[i].skb
            r == log[i].emitted[1]
            th == s.transport_header
        IN  /\ r.sport = WireValue16(s, th)
            /\ r.dport = WireValue16(s, th + 2)
            /\ r.seq = <<WireValue16(s, th + 4), WireValue16(s, th + 6)>>

\* The records trace_tcp_rcv submits for (sk, skb) when nothing else runs.
Alone(s, k) ==
    IF Rejected(s, k) THEN <<>>
    ELSE <<TimeField(s, LenFields(s, SockFields(k,
               TcpFields(s, IpFields(s, DeclPkt(0))))))>>

RECURSIVE AloneAll(_)
\* The records of the logged invocations run one after the other.
AloneAll(l) ==
    IF l = <<>> THEN <<>> ELSE Alone(l[1].skb, l[1].sk) \o AloneAll(Tail(l))

BagOfSeq(q) ==
    [x \in {q[n] : n \in DOMAIN q} |->
        Cardinality({n \in DOMAIN q : q[n] = x})]

\* Every finished invocation submitted what it submits alone, and the
\* output holds the records of the sequential run.
SameAsAlone ==
    /\ \A i \in DOMAIN log : log[i].emitted = Alone(log[i].skb, log[i].sk)
    /\ BagOfSeq(pkts) = BagOfSeq(AloneAll(log))

\* A step leaves the frame and the socket of every running invocation as
\* they were, and only adds to the output.
ArgumentsUntouched ==
    /\ \A c \in CPUs :
          pc[c] # "idle" => skb'[c] = skb[c] /\ sk'[c] = sk[c]
    /\ Len(pkts') >= Len(pkts)
    /\ SubSeq(pkts', 1, Len(pkts)) = pkts

(* C10: under any interleaving, every invocation submits exactly the       *)
(* records it submits when run alone on its arguments, the output holds    *)
(* the same multiset of records as the sequential run, and no step         *)
(* modifies the frame or the socket of a running invocation.               *)
C10_InterleavingIndependent ==
    []SameAsAlone /\ [][ArgumentsUntouched]_vars

\* Two invocations on different CPUs overlapped and submitted different
\* records.
C10_Witness ==
    \E i \in DOMAIN log : \E j \in DOMAIN log :
        /\ j = i + 1
        /\ log[j].cpu \in log[i].busy
        /\ log[i].emitted # <<>>
        /\ log[j].emitted # <<>>
        /\ log[i].emitted # log[j].emitted

====
